---- MODULE Spec2Model ----
(***************************************************************************)
(* Model of js/CanvasLayer.js: a canvas tile layer for an Esri map.  The   *)
(* layer reacts to the map's extent-change and pan-start/zoom-start        *)
(* events, requests one tile per cell of the viewport's tile rectangle,    *)
(* draws each tile when its XHR and its image decode complete, and         *)
(* filters the drawn pixels by the date decoded from their channels.      *)
(***************************************************************************)
EXTENDS Integers, Sequences, FiniteSets, Bags, TLC

VARIABLES
  visible,     \* this.visible
  element,     \* TRUE when this._element (the canvas) exists
  display,     \* this._element.style.display
  mapRef,      \* this._map: "undefined" before _setMap, "map", or "null"
  listening,   \* TRUE once _setMap registered the handlers on the map
  mapLevel,    \* host map: map.getLevel()
  mapX,        \* host map: map.extent.xmin
  mapY,        \* host map: map.extent.ymax
  surface,     \* the canvas pixels: cell -> the tile drawn there, or NoTile
  inflight,    \* bag of tile requests whose XHR or image decode is pending
  minDateValue,\* this.minDateValue
  maxDateValue,\* this.maxDateValue
  thrown,      \* TRUE when the handler of the last step raised a TypeError
  lastOp,      \* the handler that ran in the last step
  dispatched,  \* the tile requests the last step dispatched, in order
  data,        \* pixel buffer handed to filterData (r,g,b,a, r,g,b,a, ...)
  original,    \* the buffer as it was before any filterData call
  passes,      \* number of filterData calls applied to data
  decoded,     \* the values decodeDate returned in the last filterData call
  rect,        \* <<colMin, colMax, rowMin, rowMax, level>> given to getTileStats
  viewport,    \* <<xmin, xmax, ymin, ymax, resolution>> read by _update
  optVisible   \* options.visible in the constructor call; "absent" once it returned

vars == <<visible, element, display, mapRef, listening, mapLevel, mapX, mapY,
          surface, inflight, minDateValue, maxDateValue, thrown, lastOp,
          dispatched, data, original, passes, decoded, rect, viewport,
          optVisible>>

layerVars == <<visible, element, display, mapRef, listening, mapLevel, mapX,
               mapY, surface, inflight, thrown>>
filterVars == <<minDateValue, maxDateValue>>
bufferVars == <<data, original, passes, decoded>>

-----------------------------------------------------------------------------
(* Bounds of the model *)

\* highest zoom level of the host map; levels are 0..MaxLevel
MaxLevel == 1
\* the host pans the extent's xmin over 0..MaxPanX map units
MaxPanX == 2
\* the host pans the extent's ymax over WorldSize-MaxPanY..WorldSize
MaxPanY == 0
\* most tile requests pending at once
MaxInflight == 3
\* tile rectangle bounds handed to getTileStats range over -1..MaxTile
MaxTile == 2
\* pixel groups in a buffer handed to filterData
MaxPixels == 2
\* red channel values range over 0..MaxRed
MaxRed == 1
\* filterData calls applied to one buffer
MaxPasses == 2
\* extent coordinates handed to the row and column calculation: -1..MaxCoord
MaxCoord == 7
\* resolutions handed to the row and column calculation: 1..MaxRes
MaxRes == 2

-----------------------------------------------------------------------------
(* The host map (esri/map), as the layer reads it *)

\* pixels per tile side, tileInfo.rows = tileInfo.cols
TileSize == 3
\* canvas size in pixels, map.width and map.height
CanvasW == 2
CanvasH == 1

Pow2(n) == 2 ^ n

\* side of the world in map units: 2^level tiles of TileSize pixels
WorldSize == TileSize * Pow2(MaxLevel)

Levels == 0..MaxLevel

tileInfo == [origin |-> [x |-> 0, y |-> WorldSize], rows |-> TileSize, cols |-> TileSize]

\* map.getResolution(): map units per pixel at a level
getResolution(level) == Pow2(MaxLevel - level)

\* map.extent for an upper-left corner and a level
mapExtent(x, y, level) ==
  [xmin |-> x, xmax |-> x + CanvasW * getResolution(level),
   ymax |-> y, ymin |-> y - CanvasH * getResolution(level)]

\* map.toScreen(point): screen pixel of a map point under the current extent
toScreen(pt, x, y, level) ==
  [x |-> (pt.x - x) \div getResolution(level),
   y |-> (y - pt.y) \div getResolution(level)]

-----------------------------------------------------------------------------
(* Helper functions for fetching tiles *)

getTileRow(ti, level, latitude, resolution) ==
  (ti.origin.y - latitude) \div (ti.rows * resolution)

getTileColumn(ti, level, longitude, resolution) ==
  (longitude - ti.origin.x) \div (ti.cols * resolution)

\* getTileStats with the inner loop stopping one row early
RECURSIVE statsRowsExclusive(_, _, _, _)
statsRowsExclusive(col, row, rowMax, level) ==
  IF row < rowMax
  THEN <<[x |-> col, y |-> row, z |-> level]>> \o statsRowsExclusive(col, row + 1, rowMax, level)
  ELSE <<>>

RECURSIVE statsRows(_, _, _, _)
statsRows(col, row, rowMax, level) ==
  IF row <= rowMax
  THEN <<[x |-> col, y |-> row, z |-> level]>> \o statsRows(col, row + 1, rowMax, level)
  ELSE <<>>

RECURSIVE statsCols(_, _, _, _, _)
statsCols(col, colMax, rowMin, rowMax, level) ==
  IF col <= colMax
  THEN statsRows(col, rowMin, rowMax, level) \o statsCols(col + 1, colMax, rowMin, rowMax, level)
  ELSE <<>>

getTileStats(colMin, colMax, rowMin, rowMax, level) ==
  statsCols(colMin, colMax, rowMin, rowMax, level)

\* left edge of a tile column, in map units (the world is WorldSize wide)
longFromTilePosition(col, zoom) == col * (WorldSize \div Pow2(zoom))

\* upper edge of a tile row, in map units
latFromTilePosition(row, zoom) == WorldSize - row * (WorldSize \div Pow2(zoom))

-----------------------------------------------------------------------------
(* The canvas *)

Cells == (0..(CanvasW - 1)) \X (0..(CanvasH - 1))

NoTile == [x |-> -1, y |-> -1, z |-> -1]

\* context.clearRect(0, 0, canvas.width, canvas.height)
clearRect == [c \in Cells |-> NoTile]

\* _clear with the visibility test negated
clearWhenHidden(vis, el, surf) ==
  IF vis \/ ~el THEN surf ELSE clearRect

\* _clear: returns the surface it leaves
clear(vis, el, surf) ==
  IF ~vis \/ ~el THEN surf ELSE clearRect

\* drawToCanvas drawing every image at the canvas origin
drawToCanvasAtOrigin(surf, row, col, level, x, y, mlevel) ==
  [c \in Cells |->
     IF c[1] < TileSize /\ c[2] < TileSize
     THEN [x |-> col, y |-> row, z |-> level]
     ELSE surf[c]]

\* drawToCanvas: the tile's image is drawn at the screen position of its
\* upper-left corner under the map's extent at the time of the draw
drawToCanvas(surf, row, col, level, x, y, mlevel) ==
  LET long == longFromTilePosition(col, level)
      lat == latFromTilePosition(row, level)
      screen == toScreen([x |-> long, y |-> lat], x, y, mlevel)
  IN [c \in Cells |->
        IF /\ screen.x <= c[1] /\ c[1] < screen.x + TileSize
           /\ screen.y <= c[2] /\ c[2] < screen.y + TileSize
        THEN [x |-> col, y |-> row, z |-> level]
        ELSE surf[c]]

-----------------------------------------------------------------------------
(* Tile requests *)

\* getTile: the request as it leaves xhr.send()
getTile(level, row, col, baseRow, baseCol) ==
  [level |-> level, row |-> row, col |-> col, stage |-> "requested"]

\* the start and end columns and rows with the rows taken from the
\* latitudes the other way round
tileRectUnreversed(extent, resolution, level) ==
  <<getTileColumn(tileInfo, level, extent.xmin, resolution),
    getTileColumn(tileInfo, level, extent.xmax, resolution),
    getTileRow(tileInfo, level, extent.ymin, resolution),
    getTileRow(tileInfo, level, extent.ymax, resolution)>>

\* the start and end columns and rows _update calculates:
\* <<colMin, colMax, rowMin, rowMax>>
tileRect(extent, resolution, level) ==
  <<getTileColumn(tileInfo, level, extent.xmin, resolution),
    getTileColumn(tileInfo, level, extent.xmax, resolution),
    getTileRow(tileInfo, level, extent.ymax, resolution),
    getTileRow(tileInfo, level, extent.ymin, resolution)>>

\* the tile rectangle _update computes from the map's extent
updateStats(x, y, level) ==
  LET r == tileRect(mapExtent(x, y, level), getResolution(level), level)
  IN getTileStats(r[1], r[2], r[3], r[4], level)

RECURSIVE forEachGetTile(_, _)
forEachGetTile(stats, bag) ==
  IF stats = <<>> THEN bag
  ELSE forEachGetTile(Tail(stats),
         bag (+) SetToBag({getTile(Head(stats).z, Head(stats).y, Head(stats).x, 0, 0)}))

\* _update without the early return of a hidden layer
updateAlways(vis, x, y, level) ==
  IF mapRef # "map"
  THEN /\ thrown' = TRUE
       /\ UNCHANGED inflight
       /\ dispatched' = <<>>
  ELSE LET stats == updateStats(x, y, level)
       IN /\ BagCardinality(inflight) + Len(stats) <= MaxInflight
          /\ inflight' = forEachGetTile(stats, inflight)
          /\ dispatched' = stats
          /\ thrown' = FALSE

\* _update, run with this.visible = vis under the extent (x, y, level)
update(vis, x, y, level) ==
  IF ~vis
  THEN /\ UNCHANGED inflight
       /\ thrown' = FALSE
       /\ dispatched' = <<>>
  ELSE IF mapRef # "map"
  THEN /\ thrown' = TRUE
       /\ UNCHANGED inflight
       /\ dispatched' = <<>>
  ELSE LET stats == updateStats(x, y, level)
       IN /\ BagCardinality(inflight) + Len(stats) <= MaxInflight
          /\ inflight' = forEachGetTile(stats, inflight)
          /\ dispatched' = stats
          /\ thrown' = FALSE

-----------------------------------------------------------------------------
(* Decoding and filtering pixels.  Strings of digits are sequences of      *)
(* digits; a pixel is <<r, g, b, a>>.                                      *)

RECURSIVE toDigits(_)
toDigits(n) == IF n < 10 THEN <<n>> ELSE toDigits(n \div 10) \o <<n % 10>>

RECURSIVE parseInt(_)
parseInt(str) ==
  IF str = <<>> THEN 0
  ELSE 10 * parseInt(SubSeq(str, 1, Len(str) - 1)) + str[Len(str)]

\* pad: '00' + number, then the last three characters
pad(number) ==
  LET str == <<0, 0>> \o toDigits(number)
  IN SubSeq(str, Len(str) - 2, Len(str))

totalDays(pixel) == (pixel[1] * 255) + pixel[2]

\* the year offset with the quotient rounded instead of truncated
yearAsIntRounded(pixel) == ((totalDays(pixel) + 182) \div 365) + 15

\* parseInt(totalDays / 365) + 15: the quotient's integer part
yearAsInt(pixel) == (totalDays(pixel) \div 365) + 15

\* julian days counted from one
julianDayFromOne(pixel) == (totalDays(pixel) % 365) + 1

julianDay(pixel) == totalDays(pixel) % 365

decodeDate(pixel) ==
  LET year == yearAsInt(pixel) * 1000
      date == year + julianDay(pixel)
      band3Str == pad(pixel[3])
      confidence == parseInt(band3Str) - 1
      rawIntensity == parseInt(SubSeq(band3Str, 2, 3))
      scaled == rawIntensity * 50
      intensity == IF scaled > 255 THEN 255 ELSE scaled
  IN [confidence |-> confidence, intensity |-> intensity, date |-> date]

\* filterData without the else branch: a pixel out of range keeps its alpha
RECURSIVE filterFromKeepAlpha(_, _, _, _)
filterFromKeepAlpha(d, i, minDate, maxDate) ==
  IF i < Len(d)
  THEN LET values == decodeDate(SubSeq(d, i + 1, i + 4))
       IN filterFromKeepAlpha(
            IF values.date >= minDate /\ values.date <= maxDate
            THEN [d EXCEPT ![i + 4] = values.intensity]
            ELSE d,
            i + 4, minDate, maxDate)
  ELSE d

\* filterData with the lower date bound exclusive
RECURSIVE filterFromExclusive(_, _, _, _)
filterFromExclusive(d, i, minDate, maxDate) ==
  IF i < Len(d)
  THEN LET values == decodeDate(SubSeq(d, i + 1, i + 4))
       IN filterFromExclusive(
            IF values.date > minDate /\ values.date <= maxDate
            THEN [d EXCEPT ![i + 4] = values.intensity]
            ELSE [d EXCEPT ![i + 4] = 0],
            i + 4, minDate, maxDate)
  ELSE d

\* filterData with the recolouring of visible pixels switched on
RECURSIVE filterFromPink(_, _, _, _)
filterFromPink(d, i, minDate, maxDate) ==
  IF i < Len(d)
  THEN LET values == decodeDate(SubSeq(d, i + 1, i + 4))
       IN filterFromPink(
            IF values.date >= minDate /\ values.date <= maxDate
            THEN [d EXCEPT ![i + 4] = values.intensity, ![i + 1] = 255,
                           ![i + 2] = 102, ![i + 3] = 153]
            ELSE [d EXCEPT ![i + 4] = 0],
            i + 4, minDate, maxDate)
  ELSE d

\* the loop of filterData from JavaScript index i on
RECURSIVE filterFrom(_, _, _, _)
filterFrom(d, i, minDate, maxDate) ==
  IF i < Len(d)
  THEN LET values == decodeDate(SubSeq(d, i + 1, i + 4))
       IN filterFrom(
            IF values.date >= minDate /\ values.date <= maxDate
            THEN [d EXCEPT ![i + 4] = values.intensity]
            ELSE [d EXCEPT ![i + 4] = 0],
            i + 4, minDate, maxDate)
  ELSE d

filterData(d, minDate, maxDate) == filterFrom(d, 0, minDate, maxDate)

\* var values = decodeDate(data.slice(i, i + 4)), for each group in turn
decodedValues(d) ==
  [k \in 1..(Len(d) \div 4) |-> decodeDate(SubSeq(d, 4 * k - 3, 4 * k))]

-----------------------------------------------------------------------------
(* The layer *)

\* constructor: this.visible = options.visible || true
constructor(opt) ==
  IF opt = "true" THEN TRUE ELSE TRUE

Init ==
  /\ optVisible \in {"absent", "true", "false"}
  /\ visible = constructor(optVisible)
  /\ viewport = <<0, 0, 0, 0, 1>>
  /\ minDateValue = 15000
  /\ maxDateValue = 16365
  /\ element = FALSE
  /\ display = "none"
  /\ mapRef = "undefined"
  /\ listening = FALSE
  /\ mapLevel \in Levels
  /\ mapX \in 0..MaxPanX
  /\ mapY \in (WorldSize - MaxPanY)..WorldSize
  /\ surface = clearRect
  /\ inflight = EmptyBag
  /\ thrown = FALSE
  /\ lastOp = "constructor"
  /\ dispatched = <<>>
  /\ data = <<>>
  /\ original = <<>>
  /\ passes = 0
  /\ decoded = <<>>
  /\ rect = <<0, 0, 0, 0, 0>>

\* _setMap: the layer is added to the map
SetMap ==
  /\ mapRef # "map"
  /\ mapRef' = "map"
  /\ element' = TRUE
  /\ display' = IF visible THEN "block" ELSE "none"
  /\ surface' = clearRect
  /\ listening' = TRUE
  /\ lastOp' = "_setMap"
  /\ dispatched' = <<>>
  /\ UNCHANGED <<visible, mapLevel, mapX, mapY, inflight>>
  /\ thrown' = FALSE
  /\ UNCHANGED <<filterVars, bufferVars, rect, viewport>>
  /\ optVisible' = "absent"

\* _unsetMap: the layer is removed from the map
UnsetMap ==
  /\ mapRef = "map"
  /\ mapRef' = "null"
  /\ lastOp' = "_unsetMap"
  /\ dispatched' = <<>>
  /\ UNCHANGED <<visible, element, display, listening, mapLevel, mapX, mapY,
                 surface, inflight>>
  /\ thrown' = FALSE
  /\ UNCHANGED <<filterVars, bufferVars, rect, viewport>>
  /\ optVisible' = "absent"

show ==
  /\ lastOp' = "show"
  /\ IF element
     THEN /\ display' = "block"
          /\ visible' = TRUE
          /\ update(TRUE, mapX, mapY, mapLevel)
     ELSE /\ UNCHANGED <<display, visible, inflight>>
          /\ thrown' = FALSE
          /\ dispatched' = <<>>
  /\ UNCHANGED <<element, mapRef, listening, mapLevel, mapX, mapY, surface>>
  /\ UNCHANGED <<filterVars, bufferVars, rect, viewport>>
  /\ optVisible' = "absent"

hide ==
  /\ lastOp' = "hide"
  /\ dispatched' = <<>>
  /\ IF element
     THEN /\ display' = "none"
          /\ visible' = FALSE
          /\ surface' = clear(FALSE, element, surface)
     ELSE UNCHANGED <<display, visible, surface>>
  /\ UNCHANGED <<element, mapRef, listening, mapLevel, mapX, mapY, inflight>>
  /\ thrown' = FALSE
  /\ UNCHANGED <<filterVars, bufferVars, rect, viewport>>
  /\ optVisible' = "absent"

forceUpdate ==
  /\ lastOp' = "forceUpdate"
  /\ IF element /\ visible
     THEN /\ surface' = clear(visible, element, surface)
          /\ update(visible, mapX, mapY, mapLevel)
     ELSE /\ UNCHANGED <<surface, inflight>>
          /\ thrown' = FALSE
          /\ dispatched' = <<>>
  /\ UNCHANGED <<visible, element, display, mapRef, listening, mapLevel, mapX, mapY>>
  /\ UNCHANGED <<filterVars, bufferVars, rect, viewport>>
  /\ optVisible' = "absent"

\* the map's extent changes and fires 'extent-change': _update
ExtentChange ==
  \E x \in 0..MaxPanX, y \in (WorldSize - MaxPanY)..WorldSize, level \in Levels :
    /\ mapX' = x
    /\ mapY' = y
    /\ mapLevel' = level
    /\ lastOp' = "extent-change"
    /\ IF listening
       THEN update(visible, x, y, level)
       ELSE /\ UNCHANGED inflight
            /\ thrown' = FALSE
            /\ dispatched' = <<>>
    /\ UNCHANGED <<visible, element, display, mapRef, listening, surface>>
    /\ UNCHANGED <<filterVars, bufferVars, rect, viewport>>
    /\ optVisible' = "absent"

\* the map fires 'pan-start' or 'zoom-start': _clear
PanStart ==
  /\ listening
  /\ lastOp' = "pan-start"
  /\ dispatched' = <<>>
  /\ surface' = clear(visible, element, surface)
  /\ UNCHANGED <<visible, element, display, mapRef, listening, mapLevel, mapX,
                 mapY, inflight>>
  /\ thrown' = FALSE
  /\ UNCHANGED <<filterVars, bufferVars, rect, viewport>>
  /\ optVisible' = "absent"

\* xhr.onreadystatechange with readyState 4 and status 200: image.src is set
XhrDone ==
  \E t \in BagToSet(inflight) :
    /\ t.stage = "requested"
    /\ inflight' = (inflight (-) SetToBag({t})) (+) SetToBag({[t EXCEPT !.stage = "decoding"]})
    /\ lastOp' = "xhr-200"
    /\ dispatched' = <<>>
    /\ UNCHANGED <<visible, element, display, mapRef, listening, mapLevel, mapX,
                   mapY, surface>>
    /\ thrown' = FALSE
    /\ UNCHANGED <<filterVars, bufferVars, rect, viewport>>
    /\ optVisible' = "absent"

\* a failed XHR that is sent again instead of being dropped
XhrFailRetry ==
  \E t \in BagToSet(inflight) :
    /\ t.stage = "requested"
    /\ inflight' = inflight
    /\ lastOp' = "xhr-fail"
    /\ dispatched' = <<>>
    /\ UNCHANGED <<visible, element, display, mapRef, listening, mapLevel, mapX,
                   mapY, surface>>
    /\ thrown' = FALSE
    /\ UNCHANGED <<filterVars, bufferVars, rect, viewport>>
    /\ optVisible' = "absent"

\* the XHR ends with another status or a transport error: the handler does nothing
XhrFail ==
  \E t \in BagToSet(inflight) :
    /\ t.stage = "requested"
    /\ inflight' = inflight (-) SetToBag({t})
    /\ lastOp' = "xhr-fail"
    /\ dispatched' = <<>>
    /\ UNCHANGED <<visible, element, display, mapRef, listening, mapLevel, mapX,
                   mapY, surface>>
    /\ thrown' = FALSE
    /\ UNCHANGED <<filterVars, bufferVars, rect, viewport>>
    /\ optVisible' = "absent"

\* image.onload that leaves the request pending, so that it can draw again
ImageLoadAgain ==
  \E t \in BagToSet(inflight) :
    /\ t.stage = "decoding"
    /\ inflight' = inflight
    /\ lastOp' = "image-load"
    /\ dispatched' = <<>>
    /\ IF mapRef # "map"
       THEN /\ thrown' = TRUE
            /\ UNCHANGED surface
       ELSE /\ surface' = drawToCanvas(surface, t.row, t.col, t.level, mapX, mapY, mapLevel)
            /\ thrown' = FALSE
    /\ UNCHANGED <<visible, element, display, mapRef, listening, mapLevel, mapX, mapY>>
    /\ UNCHANGED <<filterVars, bufferVars, rect, viewport>>
    /\ optVisible' = "absent"

\* image.onload: drawToCanvas
ImageLoad ==
  \E t \in BagToSet(inflight) :
    /\ t.stage = "decoding"
    /\ inflight' = inflight (-) SetToBag({t})
    /\ lastOp' = "image-load"
    /\ dispatched' = <<>>
    /\ IF mapRef # "map"
       THEN /\ thrown' = TRUE
            /\ UNCHANGED surface
       ELSE /\ surface' = drawToCanvas(surface, t.row, t.col, t.level, mapX, mapY, mapLevel)
            /\ thrown' = FALSE
    /\ UNCHANGED <<visible, element, display, mapRef, listening, mapLevel, mapX, mapY>>
    /\ UNCHANGED <<filterVars, bufferVars, rect, viewport>>
    /\ optVisible' = "absent"

\* the image fails to decode: no handler is registered for it
ImageError ==
  \E t \in BagToSet(inflight) :
    /\ t.stage = "decoding"
    /\ inflight' = inflight (-) SetToBag({t})
    /\ lastOp' = "image-error"
    /\ dispatched' = <<>>
    /\ UNCHANGED <<visible, element, display, mapRef, listening, mapLevel, mapX,
                   mapY, surface>>
    /\ thrown' = FALSE
    /\ UNCHANGED <<filterVars, bufferVars, rect, viewport>>
    /\ optVisible' = "absent"

Next ==
  \/ SetMap
  \/ UnsetMap
  \/ show
  \/ hide
  \/ forceUpdate
  \/ ExtentChange
  \/ PanStart
  \/ XhrDone
  \/ XhrFail
  \/ ImageLoad
  \/ ImageError

Spec == Init /\ [][Next]_vars

-----------------------------------------------------------------------------
(* getTileStats and the dispatch loop of _update on arbitrary rectangles *)

TileRange == (-1)..MaxTile

InitTiles ==
  /\ rect \in TileRange \X TileRange \X TileRange \X TileRange \X Levels
  /\ optVisible = "absent"
  /\ viewport = <<0, 0, 0, 0, 1>>
  /\ visible = TRUE
  /\ minDateValue = 15000
  /\ maxDateValue = 16365
  /\ element = TRUE
  /\ display = "block"
  /\ mapRef = "map"
  /\ listening = TRUE
  /\ mapLevel = rect[5]
  /\ mapX = 0
  /\ mapY = WorldSize
  /\ surface = clearRect
  /\ inflight = EmptyBag
  /\ thrown = FALSE
  /\ lastOp = "constructor"
  /\ dispatched = <<>>
  /\ data = <<>>
  /\ original = <<>>
  /\ passes = 0
  /\ decoded = <<>>

\* _update from the computed colMin, colMax, rowMin, rowMax on
UpdateRect ==
  /\ lastOp = "constructor"
  /\ LET stats == getTileStats(rect[1], rect[2], rect[3], rect[4], rect[5])
     IN /\ inflight' = forEachGetTile(stats, inflight)
        /\ dispatched' = stats
  /\ lastOp' = "_update"
  /\ thrown' = FALSE
  /\ UNCHANGED <<visible, element, display, mapRef, listening, mapLevel, mapX,
                 mapY, surface>>
  /\ UNCHANGED <<filterVars, bufferVars, rect, viewport, optVisible>>

NextTiles == UpdateRect

SpecTiles == InitTiles /\ [][NextTiles]_vars

-----------------------------------------------------------------------------
(* The row and column calculation of _update on arbitrary extents *)

CoordRange == (-1)..MaxCoord

InitExtent ==
  /\ viewport \in {v \in CoordRange \X CoordRange \X CoordRange \X CoordRange \X (1..MaxRes) :
                     v[1] <= v[2] /\ v[3] <= v[4]}
  /\ mapLevel \in Levels
  /\ rect = <<0, 0, 0, 0, 0>>
  /\ optVisible = "absent"
  /\ visible = TRUE
  /\ minDateValue = 15000
  /\ maxDateValue = 16365
  /\ element = TRUE
  /\ display = "block"
  /\ mapRef = "map"
  /\ listening = TRUE
  /\ mapX = 0
  /\ mapY = WorldSize
  /\ surface = clearRect
  /\ inflight = EmptyBag
  /\ thrown = FALSE
  /\ lastOp = "constructor"
  /\ dispatched = <<>>
  /\ data = <<>>
  /\ original = <<>>
  /\ passes = 0
  /\ decoded = <<>>

\* _update from the reading of the extent to the call of getTileStats
UpdateExtent ==
  /\ lastOp = "constructor"
  /\ LET extent == [xmin |-> viewport[1], xmax |-> viewport[2],
                    ymin |-> viewport[3], ymax |-> viewport[4]]
         r == tileRect(extent, viewport[5], mapLevel)
     IN /\ rect' = r \o <<mapLevel>>
        /\ dispatched' = getTileStats(r[1], r[2], r[3], r[4], mapLevel)
  /\ lastOp' = "_update"
  /\ UNCHANGED <<layerVars, filterVars, bufferVars, viewport, optVisible>>

NextExtent == UpdateExtent

SpecExtent == InitExtent /\ [][NextExtent]_vars

-----------------------------------------------------------------------------
(* filterData on buffers of pixel groups *)

Greens == {0, 1, 2, 3, 109, 110, 111}
Blues == {0, 1, 5, 31, 105, 255}
Alphas == {0, 255}

Pixels ==
  {<<r, g, 31, 255>> : r \in 0..MaxRed, g \in Greens}
    \cup {<<0, 1, b, a>> : b \in Blues, a \in Alphas}

RECURSIVE Buffers(_)
Buffers(n) ==
  IF n = 0 THEN {<<>>}
  ELSE {b \o p : b \in Buffers(n - 1), p \in Pixels}

\* the constructor's range, and ranges whose ends are dates pixels decode to
DateRanges == {<<15000, 16365>>, <<15001, 15002>>, <<15364, 16000>>}

InitFilter ==
  /\ \E n \in 1..MaxPixels : data \in Buffers(n)
  /\ original = data
  /\ passes = 0
  /\ decoded = <<>>
  /\ \E range \in DateRanges :
       /\ minDateValue = range[1]
       /\ maxDateValue = range[2]
  /\ optVisible = "absent"
  /\ viewport = <<0, 0, 0, 0, 1>>
  /\ visible = TRUE
  /\ element = TRUE
  /\ display = "block"
  /\ mapRef = "map"
  /\ listening = TRUE
  /\ mapLevel = 0
  /\ mapX = 0
  /\ mapY = WorldSize
  /\ surface = clearRect
  /\ inflight = EmptyBag
  /\ thrown = FALSE
  /\ lastOp = "constructor"
  /\ dispatched = <<>>
  /\ rect = <<0, 0, 0, 0, 0>>

\* imageData.data = this.filterData(imageData.data)
FilterData ==
  /\ passes < MaxPasses
  /\ data' = filterData(data, minDateValue, maxDateValue)
  /\ decoded' = decodedValues(data)
  /\ passes' = passes + 1
  /\ lastOp' = "filterData"
  /\ UNCHANGED <<layerVars, filterVars, original, dispatched, rect, viewport,
                 optVisible>>

NextFilter == FilterData

SpecFilter == InitFilter /\ [][NextFilter]_vars

-----------------------------------------------------------------------------
(* Properties *)

attached == element /\ mapRef = "map"

SurfaceClear == surface = clearRect

\* C1: hide() on an attached, visible layer leaves every pixel of the
\* surface transparent.
C1_HideClears ==
  [][(lastOp' = "hide" /\ attached /\ visible) => SurfaceClear']_vars

\* C2: show() on an attached hidden layer clears the surface and then
\* dispatches one fetch per tile of the viewport's tile rectangle, so
\* nothing drawn before the show() remains.
C2_ShowClearsAndUpdates ==
  [][(lastOp' = "show" /\ attached /\ ~visible)
       => /\ SurfaceClear'
          /\ dispatched' = updateStats(mapX, mapY, mapLevel)]_vars

C4_HiddenUpdateNoop ==
  [][(lastOp' = "extent-change" /\ ~visible)
       => /\ dispatched' = <<>>
          /\ thrown' = FALSE
          /\ UNCHANGED <<surface, inflight, visible, element, display, mapRef,
                         listening, minDateValue, maxDateValue>>]_vars

C4_Witness ==
  /\ lastOp = "extent-change"
  /\ attached
  /\ listening
  /\ ~visible
  /\ dispatched = <<>>

\* C5: whenever _update dispatches tile fetches (on a viewport-change, a
\* show() or a forceUpdate()), the surface is fully cleared at the moment of
\* the dispatch.
C5_DispatchOnClearSurface ==
  (lastOp \in {"extent-change", "show", "forceUpdate"} /\ dispatched # <<>>)
    => SurfaceClear

\* C6: the dispatch loop of _update issues exactly one fetch per element of
\* [colMin..colMax] x [rowMin..rowMax], each with the current level:
\* (colMax-colMin+1)*(rowMax-rowMin+1) fetches, and none when colMin > colMax
\* or rowMin > rowMax.
C6_OneFetchPerTile ==
  lastOp = "_update" =>
    LET colMin == rect[1]
        colMax == rect[2]
        rowMin == rect[3]
        rowMax == rect[4]
        level == rect[5]
    IN /\ Len(dispatched) =
            IF colMin > colMax \/ rowMin > rowMax THEN 0
            ELSE (colMax - colMin + 1) * (rowMax - rowMin + 1)
       /\ BagCardinality(inflight) = Len(dispatched)
       /\ \A col \in colMin..colMax, row \in rowMin..rowMax :
            CopiesIn([level |-> level, row |-> row, col |-> col,
                      stage |-> "requested"], inflight) = 1
       /\ \A t \in BagToSet(inflight) :
            /\ t.level = level
            /\ t.col \in colMin..colMax
            /\ t.row \in rowMin..rowMax
       /\ (colMin = colMax /\ rowMin = rowMax) => Len(dispatched) = 1

C6_Witness ==
  /\ lastOp = "_update"
  /\ rect[1] < rect[2]
  /\ rect[3] < rect[4]
  /\ Len(dispatched) = (rect[2] - rect[1] + 1) * (rect[4] - rect[3] + 1)

\* the date and the intensity of a pixel as the encoding defines them
encodedDate(r, g) == (((r * 255 + g) \div 365) + 15) * 1000 + ((r * 255 + g) % 365)
encodedIntensity(b) == IF (b % 100) * 50 > 255 THEN 255 ELSE (b % 100) * 50

Groups(buf) == 0..((Len(buf) \div 4) - 1)

\* C7: filterData sets a group's alpha to the decoded intensity exactly when
\* minDateValue <= date <= maxDateValue (bounds inclusive) and to 0
\* otherwise.
C7_AlphaByInclusiveRange ==
  passes >= 1 =>
    \A k \in Groups(data) :
      LET date == encodedDate(original[4 * k + 1], original[4 * k + 2])
      IN data[4 * k + 4] =
           IF minDateValue <= date /\ date <= maxDateValue
           THEN encodedIntensity(original[4 * k + 3])
           ELSE 0

C7_Witness ==
  /\ passes >= 1
  /\ Len(data) = 8
  /\ encodedDate(original[1], original[2]) = minDateValue
  /\ data[4] = 255
  /\ encodedDate(original[5], original[6]) = maxDateValue + 1
  /\ original[8] = 255
  /\ data[8] = 0

\* C8: filterData never changes an R, G or B value nor the buffer length,
\* after one or any number of applications.
C8_RGBUntouched ==
  /\ Len(data) = Len(original)
  /\ \A i \in 1..Len(data) : i % 4 # 0 => data[i] = original[i]

C8_Witness ==
  /\ passes = MaxPasses
  /\ data # original

\* C9: decodeDate returns a confidence in {0,1} and an intensity in 0..255
\* for every pixel.
C9_ConfidenceAndIntensityRange ==
  \A k \in 1..Len(decoded) :
    /\ decoded[k].confidence \in {0, 1}
    /\ decoded[k].intensity \in 0..255

\* C10 as stated: the pixel [0, 1, 31, 255] decodes to totalDays 1, year
\* offset 15 and date 15000.
C10_KnownVector15000 ==
  \A k \in 1..Len(decoded) :
    LET pixel == SubSeq(original, 4 * k - 3, 4 * k)
    IN pixel = <<0, 1, 31, 255>>
         => /\ totalDays(pixel) = 1
            /\ yearAsInt(pixel) = 15
            /\ decoded[k].date = 15000

\* C10 amended: the pixel [0, 1, 31, 255] decodes to totalDays 1, year
\* offset 15 and date 15001; filterData shows it exactly when
\* minDateValue <= 15001 <= maxDateValue.
C10_KnownVector15001 ==
  \A k \in 1..Len(decoded) :
    LET pixel == SubSeq(original, 4 * k - 3, 4 * k)
    IN pixel = <<0, 1, 31, 255>>
         => /\ totalDays(pixel) = 1
            /\ yearAsInt(pixel) = 15
            /\ decoded[k].date = 15001
            /\ data[4 * k] # 0 <=> (minDateValue <= 15001 /\ 15001 <= maxDateValue)

C10_Witness ==
  /\ passes >= 1
  /\ SubSeq(original, 1, 4) = <<0, 1, 31, 255>>
  /\ decoded[1].date = minDateValue
  /\ data[4] = 255

\* the surface content a request leaves where it is drawn
tileOf(t) == [x |-> t.col, y |-> t.row, z |-> t.level]

RECURSIVE SumCopies(_, _)
SumCopies(S, bag) ==
  IF S = {} THEN 0
  ELSE LET t == CHOOSE t \in S : TRUE
       IN CopiesIn(t, bag) + SumCopies(S \ {t}, bag)

\* number of pending requests in a stage
StageCount(bag, stage) ==
  SumCopies({t \in BagToSet(bag) : t.stage = stage}, bag)

\* C11: a tile whose XHR fails or whose image fails to decode is dropped:
\* it is never drawn, the surface is unchanged, nothing is sent again, no
\* error is raised, and the other pending tiles are untouched.
C11_FailedTileDropped ==
  [][lastOp' \in {"xhr-fail", "image-error"}
       => /\ UNCHANGED surface
          /\ thrown' = FALSE
          /\ dispatched' = <<>>
          /\ \E t \in BagToSet(inflight) :
               /\ t.stage = IF lastOp' = "xhr-fail" THEN "requested" ELSE "decoding"
               /\ inflight' = inflight (-) SetToBag({t})]_vars

C11_Witness ==
  /\ lastOp = "image-error"
  /\ attached
  /\ ~SurfaceClear
  /\ BagCardinality(inflight) >= 1

\* C12: every tile whose XHR and image decode succeed is drawn onto the
\* surface when it completes, whatever clear or viewport-change came between.
C12_CompletedTileComposites ==
  [][lastOp' = "image-load"
       => /\ thrown' = FALSE
          /\ \E t \in BagToSet(inflight) :
               /\ t.stage = "decoding"
               /\ inflight' = inflight (-) SetToBag({t})
               /\ surface' = drawToCanvas(surface, t.row, t.col, t.level,
                                          mapX, mapY, mapLevel)]_vars

\* C13: no sequence of attach, detach, show, hide, forceUpdate, map events
\* and tile completions raises an error.
C13_NoError == thrown = FALSE

\* C14: a tile is drawn only by the image load of a request whose XHR
\* succeeded, a request reaches the decoding stage only from the requested
\* stage, the requested stage only by a dispatch, and the image load removes
\* the request, so that it is drawn at most once.
C14_StagesInOrder ==
  [][/\ (\E c \in Cells : surface'[c] # surface[c] /\ surface'[c] # NoTile)
          => lastOp' = "image-load"
     /\ lastOp' = "image-load"
          => \E t \in BagToSet(inflight) :
               /\ t.stage = "decoding"
               /\ inflight' = inflight (-) SetToBag({t})
               /\ \A c \in Cells : surface'[c] # surface[c] => surface'[c] = tileOf(t)
     /\ StageCount(inflight', "decoding") > StageCount(inflight, "decoding")
          => /\ lastOp' = "xhr-200"
             /\ \E t \in BagToSet(inflight) :
                  /\ t.stage = "requested"
                  /\ inflight' = (inflight (-) SetToBag({t}))
                                   (+) SetToBag({[t EXCEPT !.stage = "decoding"]})
     /\ StageCount(inflight', "requested") > StageCount(inflight, "requested")
          => /\ dispatched' # <<>>
             /\ inflight' = forEachGetTile(dispatched', inflight)]_vars

C14_Witness ==
  /\ lastOp = "image-load"
  /\ ~thrown
  /\ ~SurfaceClear
  /\ BagCardinality(inflight) >= 1

\* C18: while the layer is hidden no tile is drawn onto the surface.
C18_HiddenNoComposite ==
  [][(~visible /\ ~visible')
       => \A c \in Cells : surface'[c] # surface[c] => surface'[c] = NoTile]_vars

\* the surface after a pending request is drawn under the map's present extent
drawn(surf, t) == drawToCanvas(surf, t.row, t.col, t.level, mapX, mapY, mapLevel)

\* C15 as stated: the composites of any two pending tiles commute, so the
\* final surface is the same for every order in which they complete.
C15_CompositesCommute ==
  attached =>
    \A t1, t2 \in BagToSet(inflight) :
      drawn(drawn(surface, t1), t2) = drawn(drawn(surface, t2), t1)

\* C15 amended: the composites of any two pending tiles of the map's present
\* zoom level commute; their rectangles do not overlap.
C15_SameLevelCompositesCommute ==
  attached =>
    \A t1, t2 \in BagToSet(inflight) :
      (t1.level = mapLevel /\ t2.level = mapLevel)
        => drawn(drawn(surface, t1), t2) = drawn(drawn(surface, t2), t1)

C15_Witness ==
  /\ attached
  /\ \E t1, t2 \in BagToSet(inflight) :
       /\ t1.level = mapLevel
       /\ t2.level = mapLevel
       /\ tileOf(t1) # tileOf(t2)
       /\ \E c1, c2 \in Cells :
            /\ drawn(surface, t1)[c1] = tileOf(t1)
            /\ drawn(surface, t2)[c2] = tileOf(t2)

\* C16: filterData is a pure per-pixel map: two groups with the same R, G
\* and B get the same output whatever their position and the alpha stored
\* before, and a second application with the same FilterState changes
\* nothing.
C16_PurePerPixelMap ==
  [][/\ passes' >= 1 =>
          \A j, k \in Groups(data') :
            (\A ch \in 1..3 : original'[4 * j + ch] = original'[4 * k + ch])
              => \A ch \in 1..4 : data'[4 * j + ch] = data'[4 * k + ch]
     /\ (passes >= 1 /\ lastOp' = "filterData") => data' = data]_vars

C16_Witness ==
  /\ passes = 2
  /\ Len(data) = 8
  /\ \A ch \in 1..3 : original[ch] = original[4 + ch]
  /\ original[4] # original[8]
  /\ data[4] = data[8]

\* C17: _update takes rowMin from the extent's ymax and rowMax from its
\* ymin, with tileRow = floor((origin.y - latitude) / (rows * resolution))
\* and tileColumn = floor((longitude - origin.x) / (cols * resolution)); for
\* every extent with xmin <= xmax and ymin <= ymax and a positive resolution
\* colMin <= colMax and rowMin <= rowMax, so the rectangle is never empty.
C17_RowAxisInverted ==
  lastOp = "_update" =>
    LET xmin == viewport[1]
        xmax == viewport[2]
        ymin == viewport[3]
        ymax == viewport[4]
        size == TileSize * viewport[5]
    IN /\ rect[1] = (xmin - tileInfo.origin.x) \div size
       /\ rect[2] = (xmax - tileInfo.origin.x) \div size
       /\ rect[3] = (tileInfo.origin.y - ymax) \div size
       /\ rect[4] = (tileInfo.origin.y - ymin) \div size
       /\ rect[1] <= rect[2]
       /\ rect[3] <= rect[4]
       /\ Len(dispatched) >= 1

C17_Witness ==
  /\ lastOp = "_update"
  /\ viewport[3] < viewport[4]
  /\ rect[3] < rect[4]
  /\ rect[1] < rect[2]

\* C19: after construction this.visible equals options.visible when that
\* option is given and is true when it is absent.
C19_VisibleFromOptions ==
  lastOp = "constructor" =>
    visible = IF optVisible = "false" THEN FALSE ELSE TRUE

\* C20: the decoded date is strictly increasing in totalDays = r*255 + g and
\* equal for equal totalDays, its julian-day part stays below 1000, and so
\* the pixels a date range selects form a contiguous range of totalDays.
C20_DateMonotone ==
  passes >= 1 =>
    LET days(k) == original[4 * k - 3] * 255 + original[4 * k - 2]
        inRange(date) == minDateValue <= date /\ date <= maxDateValue
    IN /\ \A j, k \in 1..Len(decoded) :
            /\ days(j) < days(k) => decoded[j].date < decoded[k].date
            /\ days(j) = days(k) => decoded[j].date = decoded[k].date
       /\ \A k \in 1..Len(decoded) :
            /\ decoded[k].date % 1000 = days(k) % 365
            /\ decoded[k].date \div 1000 = (days(k) \div 365) + 15
       /\ \A j, k \in 1..Len(decoded) : \A p \in Pixels :
            ( /\ inRange(decoded[j].date)
              /\ inRange(decoded[k].date)
              /\ days(j) <= p[1] * 255 + p[2]
              /\ p[1] * 255 + p[2] <= days(k) )
              => inRange(decodeDate(p).date)

C20_Witness ==
  /\ passes >= 1
  /\ Len(decoded) = 2
  /\ original[1] * 255 + original[2] = 364
  /\ original[5] * 255 + original[6] = 365
  /\ decoded[1].date = 15364
  /\ decoded[2].date = 16000

====
